---- MODULE Spec2Model ----
(***************************************************************************)
(* A model of easy_graph's live-rendering core:                            *)
(*   - UpdateSkip      (src/src/ui/window.rs)  the frame-skip rate gate    *)
(*   - BufferWindow    (src/src/ui/window.rs)  the pixel surface           *)
(*   - Series, Chart   (src/src/ui/chart.rs)   the bounded series data     *)
(*                                             model and its render pass   *)
(*                                                                         *)
(* Time is counted in whole ticks (a tick stands for 0.1 s), so the f64    *)
(* seconds of UpdateSkip are integers here.  Sample coordinates are        *)
(* integers.  A usize is kept as two 16-bit limbs (value = hi*65536 + lo), *)
(* because the values that matter to the `as i32` casts of                 *)
(* Series::drop_front lie at and above 2^31.                               *)
(***************************************************************************)
EXTENDS Integers, Sequences, FiniteSets, TLC

VARIABLES
    clock,        \* the system clock read by UpdateSkip::time_now, in ticks
    window_open,  \* minifb::Window::is_open() of BufferWindow.window
    buffer_u8,    \* BufferWindow.buffer_u8: 3 bytes per pixel
    buffer_u32,   \* BufferWindow.buffer_u32: one packed word per pixel
    fps_skip,     \* BufferWindow.fps_skip: the UpdateSkip gate
    presented,    \* what minifb::Window::update_with_buffer last received
    calls,        \* the callback/backend invocations made by the last operation, in order
    lastCall,     \* the last operation called, its arguments and what it returned
    panicked,     \* the thread has panicked (the operation aborted)
    glog,         \* the calls made on a stand-alone UpdateSkip: <<now, result>> each
    data,         \* Chart.data: the series, in legend/draw order
    data_limit,   \* Chart.data_limit: Option<usize>
    limits,       \* Chart.limits: AxisLimits
    x_scale,      \* Chart.x_scale
    y_scale,      \* Chart.y_scale
    y_log,        \* Chart.y_log
    backend,      \* the drawing-backend calls made by the last operation, in order
    overflow_checks, \* the build panics on integer overflow (debug) or wraps (release)
    series,       \* a stand-alone Series, used through its own public methods
    serHist,      \* the calls made on the stand-alone Series: <<method, argument>> each
    grid,         \* a Grid<T>: width, height and the flat cell vector
    gridOut       \* the last Grid method called, its arguments and what it returned

winVars == <<window_open, buffer_u8, buffer_u32, fps_skip, presented>>
obsVars == <<calls, backend, lastCall, panicked>>
cfgVars == <<data_limit, limits, x_scale, y_scale, y_log, overflow_checks>>
chartVars == <<data, cfgVars>>
gridVars == <<grid, gridOut>>
serVars == <<series, serHist, gridVars>>
vars == <<clock, winVars, obsVars, glog, chartVars, serVars>>

---------------------------------------------------------------------------
(* Bounds of the model *)

\* the clock of the window specification runs from 0 to MaxTime
MaxTime == 4
\* the clock of the stand-alone gate specification runs from 0 to MaxGateTime
MaxGateTime == 16
\* the number of calls made on the stand-alone gate
MaxGateCalls == 5
\* the window's dimensions in pixels
Width == 2
Height == 1
\* a grid is at most MaxGridDim cells wide and high
MaxGridDim == 2
\* a series is not grown beyond MaxLen samples
MaxLen == 2
\* the number of calls made on the stand-alone Series
MaxSeriesOps == 4

\* Option<T>: None is the empty tuple, Some(x) the one-element tuple
None == << >>
Some(x) == <<x>>
unwrap(o) == o[1]

Min(a, b) == IF a <= b THEN a ELSE b

---------------------------------------------------------------------------
(* UpdateSkip *)

\* the target intervals Option<Duration> the gate is built with, in ticks
\* (10 ticks = 1.0 s)
TargetRates == {None, Some(0), Some(2), Some(10)}

UpdateSkip_from(dur) == [target_rate |-> dur, prev_time |-> 0]

time_now == clock

\* UpdateSkip::update with the comparison `delta > target_rate`
UpdateSkip_update_strict(g, now) ==
    IF g.target_rate = None
    THEN [result |-> TRUE, gate |-> g]
    ELSE IF now - g.prev_time > unwrap(g.target_rate)
         THEN [result |-> TRUE, gate |-> [g EXCEPT !.prev_time = now]]
         ELSE [result |-> FALSE, gate |-> g]

\* UpdateSkip::update admitting without recording the time of the call
UpdateSkip_update_no_store(g, now) ==
    IF g.target_rate = None
    THEN [result |-> TRUE, gate |-> g]
    ELSE IF now - g.prev_time >= unwrap(g.target_rate)
         THEN [result |-> TRUE, gate |-> g]
         ELSE [result |-> FALSE, gate |-> g]

\* UpdateSkip::update: the value returned and the gate afterwards
UpdateSkip_update(g, now) ==
    IF g.target_rate = None
    THEN [result |-> TRUE, gate |-> g]
    ELSE LET target_rate == unwrap(g.target_rate)
             delta == now - g.prev_time
         IN  IF delta >= target_rate
             THEN [result |-> TRUE, gate |-> [g EXCEPT !.prev_time = now]]
             ELSE [result |-> FALSE, gate |-> g]

---------------------------------------------------------------------------
(* usize and i32 *)

I32_MAX == 2147483647

\* A usize (64 bits) as four 16-bit limbs, most significant first.
UsizeOf(n) == <<0, 0, n \div 65536, n % 65536>>
USIZE_MAX == <<65535, 65535, 65535, 65535>>
TWO_POW_31 == <<0, 0, 32768, 0>>
TWO_POW_32 == <<0, 1, 0, 0>>

\* the usize is below 65536 (and then its value is u[4])
IsSmall(u) == u[1] = 0 /\ u[2] = 0 /\ u[3] = 0

\* `u as i32`: the low 32 bits, read as two's complement
AsI32(u) ==
    IF u[3] >= 32768
    THEN ((u[3] - 65536) * 65536) + u[4]
    ELSE (u[3] * 65536) + u[4]

\* a - b leaves the i32 range (a and b are i32 values)
SubOverflows(a, b) ==
    \/ a >= 0 /\ b < 0 /\ a > b + I32_MAX
    \/ a < 0 /\ b > 0 /\ (a + I32_MAX) + 1 < b

\* a - b modulo 2^32, as an i32
WrappingSub(a, b) ==
    IF a >= 0 /\ b < 0 /\ a > b + I32_MAX
    THEN ((((a - I32_MAX) - 1) - (b + I32_MAX)) - 1)
    ELSE IF a < 0 /\ b > 0 /\ (a + I32_MAX) + 1 < b
         THEN ((((a + I32_MAX) + 1) - (b - I32_MAX)) + 1)
         ELSE a - b

---------------------------------------------------------------------------
(* Series *)

Series_new(name, color, series_type) ==
    [name |-> name, color |-> color, series_type |-> series_type, data |-> << >>]

Series_push(ser, xy) == [ser EXCEPT !.data = Append(@, xy)]

\* VecDeque::pop_front n times; on an empty deque it returns None and changes
\* nothing
PopFront(d, n) == SubSeq(d, Min(n, Len(d)) + 1, Len(d))

\* Series::drop_front: the series afterwards, or a panic where the build
\* checks the subtraction for overflow
Series_drop_front(ser, targ_len) ==
    LET a == AsI32(UsizeOf(Len(ser.data)))
        b == AsI32(targ_len)
    IN  IF SubOverflows(a, b) /\ overflow_checks
        THEN [panic |-> TRUE, ser |-> ser]
        ELSE LET drop == WrappingSub(a, b)
             IN  [panic |-> FALSE,
                  ser |-> IF drop > 0
                          THEN [ser EXCEPT !.data = PopFront(@, drop)]
                          ELSE ser]

\* VecDeque::pop_back n times; on an empty deque it returns None and changes
\* nothing
PopBack(d, n) == SubSeq(d, 1, Len(d) - Min(n, Len(d)))

\* the usize subtraction n - u underflows (n is a length below 65536)
UsizeSubUnderflows(n, u) == ~IsSmall(u) \/ u[4] > n

\* Series::drop_back: `self.data.len() - targ_len` on usize.  Where the
\* difference is negative, a build that checks for overflow panics; otherwise
\* it wraps to 2^64 - (targ_len - len), and the loop pops that many times:
\* first every sample, then None from the empty deque until the count is used
\* up.
Series_drop_back(ser, targ_len) ==
    IF UsizeSubUnderflows(Len(ser.data), targ_len)
    THEN IF overflow_checks
         THEN [panic |-> TRUE, ser |-> ser]
         ELSE [panic |-> FALSE, ser |-> [ser EXCEPT !.data = PopBack(@, Len(@))]]
    ELSE [panic |-> FALSE,
          ser |-> [ser EXCEPT !.data = PopBack(@, Len(@) - targ_len[4])]]

\* Series::clear removing one sample only
Series_clear_pop_one(ser) == [ser EXCEPT !.data = PopFront(@, 1)]

Series_clear(ser) == [ser EXCEPT !.data = << >>]

\* the x and y values pushed (the data operations never compare them)
Ts == {1}
Ys == {1, 5}
Samples == Ts \X Ys

\* the target lengths handed to drop_front
TargLens == {UsizeOf(n) : n \in 0..(MaxLen + 1)} \cup {TWO_POW_31, TWO_POW_32, USIZE_MAX}

\* Series::push(xy) on the stand-alone Series
SeriesPush ==
    /\ ~panicked
    /\ Len(serHist) < MaxSeriesOps
    /\ Len(series.data) < MaxLen + 1
    /\ \E xy \in Samples :
         /\ series' = Series_push(series, xy)
         /\ serHist' = Append(serHist, <<"push", xy>>)
    /\ lastCall' = [op |-> "push", open |-> "n/a", admitted |-> "n/a", arg |-> 0, samples |-> << >>]
    /\ UNCHANGED <<clock, winVars, calls, backend, panicked, glog, chartVars, gridVars>>

\* Series::drop_front(targ_len) on the stand-alone Series
SeriesDropFront ==
    /\ ~panicked
    /\ Len(serHist) < MaxSeriesOps
    /\ \E targ_len \in TargLens :
         LET r == Series_drop_front(series, targ_len)
         IN  /\ series' = r.ser
             /\ panicked' = r.panic
             /\ serHist' = Append(serHist, <<"drop_front", targ_len>>)
    /\ lastCall' = [op |-> "drop_front", open |-> "n/a", admitted |-> "n/a", arg |-> 0, samples |-> << >>]
    /\ UNCHANGED <<clock, winVars, calls, backend, glog, chartVars, gridVars>>

\* Series::drop_back(targ_len) on the stand-alone Series
SeriesDropBack ==
    /\ ~panicked
    /\ Len(serHist) < MaxSeriesOps
    /\ \E targ_len \in TargLens :
         LET r == Series_drop_back(series, targ_len)
         IN  /\ series' = r.ser
             /\ panicked' = r.panic
             /\ serHist' = Append(serHist, <<"drop_back", targ_len>>)
    /\ lastCall' = [op |-> "drop_back", open |-> "n/a", admitted |-> "n/a", arg |-> 0,
                    samples |-> << >>]
    /\ UNCHANGED <<clock, winVars, calls, backend, glog, chartVars, gridVars>>

\* Series::clear() on the stand-alone Series
SeriesClear ==
    /\ ~panicked
    /\ Len(serHist) < MaxSeriesOps
    /\ series' = Series_clear(series)
    /\ serHist' = Append(serHist, <<"clear", << >>>>)
    /\ lastCall' = [op |-> "clear", open |-> "n/a", admitted |-> "n/a", arg |-> 0,
                    samples |-> << >>]
    /\ UNCHANGED <<clock, winVars, calls, backend, panicked, glog, chartVars, gridVars>>

---------------------------------------------------------------------------
(* Grid *)

\* the cell values stored in the grid
GridValues == {0, 1}

\* Grid::new(width, height, default): data.resize(width * height, default)
Grid_new(width, height, default) ==
    [width |-> width, height |-> height,
     data |-> [k \in 1..(width * height) |-> default]]

\* Grid::index with the width as the stride
Grid_index_width_stride(g, x, y) == (x * g.width) + y

\* Grid::index(x, y): x * self.height + y
Grid_index(g, x, y) == (x * g.height) + y

\* Grid::coord(index): ((index / self.height) as i32, (index % self.height) as i32)
Grid_coord(g, index) ==
    <<AsI32(UsizeOf(index \div g.height)), AsI32(UsizeOf(index % g.height))>>

\* Grid::contains(x, y):
\* x >= 0 && y >= 0 && x < self.width as i32 && y < self.width as i32
Grid_contains(g, x, y) ==
    /\ x >= 0
    /\ y >= 0
    /\ x < AsI32(UsizeOf(g.width))
    /\ y < AsI32(UsizeOf(g.width))

\* Grid::get(x, y): &self.data[self.index(x, y)]; indexing past the vector panics
Grid_get(g, x, y) ==
    LET idx == Grid_index(g, x, y)
    IN  IF idx < Len(g.data)
        THEN [ret |-> Some(g.data[idx + 1]), panic |-> FALSE]
        ELSE [ret |-> None, panic |-> TRUE]

\* Grid::set(x, y, value): self.data[self.index(x, y)] = value
Grid_set(g, x, y, value) ==
    LET idx == Grid_index(g, x, y)
    IN  IF idx < Len(g.data)
        THEN [grid |-> [g EXCEPT !.data[idx + 1] = value], panic |-> FALSE]
        ELSE [grid |-> g, panic |-> TRUE]

NoGridCall == [op |-> "none", x |-> 0, y |-> 0, arg |-> 0, ret |-> None]

\* the usize coordinates handed to get, set and index: the grid's own and one
\* column and one row beyond
GridXs == 0..grid.width
GridYs == 0..grid.height
\* the i32 coordinates handed to contains
GridCoords == (-1)..(MaxGridDim + 1)

\* grid.set(x, y, value)
GridSet ==
    /\ ~panicked
    /\ \E x \in GridXs, y \in GridYs, value \in GridValues :
         LET r == Grid_set(grid, x, y, value)
         IN  /\ grid' = r.grid
             /\ panicked' = r.panic
             /\ gridOut' = [op |-> "set", x |-> x, y |-> y, arg |-> value, ret |-> None]
    /\ UNCHANGED <<clock, winVars, calls, backend, lastCall, glog, chartVars, series, serHist>>

\* grid.get(x, y)
GridGet ==
    /\ ~panicked
    /\ \E x \in GridXs, y \in GridYs :
         LET r == Grid_get(grid, x, y)
         IN  /\ panicked' = r.panic
             /\ gridOut' = [op |-> "get", x |-> x, y |-> y, arg |-> 0, ret |-> r.ret]
    /\ UNCHANGED <<clock, winVars, calls, backend, lastCall, glog, chartVars, series, serHist,
                   grid>>

\* grid.contains(x, y)
GridContains ==
    /\ ~panicked
    /\ \E x \in GridCoords, y \in GridCoords :
         gridOut' = [op |-> "contains", x |-> x, y |-> y, arg |-> 0,
                     ret |-> Grid_contains(grid, x, y)]
    /\ UNCHANGED <<clock, winVars, obsVars, glog, chartVars, series, serHist, grid>>

\* grid.index(x, y)
GridIndex ==
    /\ ~panicked
    /\ \E x \in GridXs, y \in GridYs :
         gridOut' = [op |-> "index", x |-> x, y |-> y, arg |-> 0,
                     ret |-> Grid_index(grid, x, y)]
    /\ UNCHANGED <<clock, winVars, obsVars, glog, chartVars, series, serHist, grid>>

\* grid.coord(index)
GridCoord ==
    /\ ~panicked
    /\ \E index \in 0..Len(grid.data) :
         gridOut' = [op |-> "coord", x |-> 0, y |-> 0, arg |-> index,
                     ret |-> Grid_coord(grid, index)]
    /\ UNCHANGED <<clock, winVars, obsVars, glog, chartVars, series, serHist, grid>>

---------------------------------------------------------------------------
(* Chart: the data operations *)

BLUE == <<0, 0, 255>>

RECURSIVE SeqsUpTo(_, _)
SeqsUpTo(S, n) ==
    IF n = 0 THEN {<< >>}
    ELSE LET shorter == SeqsUpTo(S, n - 1)
         IN  shorter \cup {Append(q, x) : q \in {r \in shorter : Len(r) = n - 1}, x \in S}

\* The loop of push_time_series over data.iter_mut().zip(y), from series i on:
\* push, then drop_front(lim) if a data limit is set.  A panic ends it.
RECURSIVE PushRow(_, _, _, _)
PushRow(d, t, y, i) ==
    IF i > Min(Len(d), Len(y))
    THEN [panic |-> FALSE, data |-> d]
    ELSE LET pushed == Series_push(d[i], <<t, y[i]>>)
         IN  IF data_limit = None
             THEN PushRow([d EXCEPT ![i] = pushed], t, y, i + 1)
             ELSE LET r == Series_drop_front(pushed, unwrap(data_limit))
                  IN  IF r.panic
                      THEN [panic |-> TRUE, data |-> [d EXCEPT ![i] = pushed]]
                      ELSE PushRow([d EXCEPT ![i] = r.ser], t, y, i + 1)

\* Chart::push_time_series without the comparison of the lengths: zip() stops
\* at the shorter of the two
Chart_push_time_series_unchecked(t, y) ==
    IF ~window_open
    THEN /\ lastCall' = [op |-> "push_time_series", open |-> "closed",
                         admitted |-> "n/a", arg |-> Len(y),
                         samples |-> [i \in 1..Len(y) |-> <<t, y[i]>>]]
         /\ UNCHANGED <<data, panicked>>
    ELSE /\ lastCall' = [op |-> "push_time_series", open |-> "open",
                         admitted |-> "n/a", arg |-> Len(y),
                         samples |-> [i \in 1..Len(y) |-> <<t, y[i]>>]]
         /\ LET r == PushRow(data, t, y, 1)
            IN  data' = r.data /\ panicked' = r.panic

\* Chart::push_time_series(t, y)
Chart_push_time_series(t, y) ==
    IF ~window_open
    THEN /\ lastCall' = [op |-> "push_time_series", open |-> "closed",
                         admitted |-> "n/a", arg |-> Len(y),
                         samples |-> [i \in 1..Len(y) |-> <<t, y[i]>>]]
         /\ UNCHANGED <<data, panicked>>
    ELSE /\ lastCall' = [op |-> "push_time_series", open |-> "open",
                         admitted |-> "n/a", arg |-> Len(y),
                         samples |-> [i \in 1..Len(y) |-> <<t, y[i]>>]]
         /\ IF Len(data) # Len(y)
            THEN panicked' = TRUE /\ UNCHANGED data
            ELSE LET r == PushRow(data, t, y, 1)
                 IN  data' = r.data /\ panicked' = r.panic

\* Chart::push_xy with an index past the end clamped to the last series
Chart_push_xy_clamped(index, xy) ==
    /\ lastCall' = [op |-> "push_xy", open |-> "n/a", admitted |-> "n/a", arg |-> index,
                    samples |-> <<xy>>]
    /\ LET at == Min(index + 1, Len(data))
           pushed == Series_push(data[at], xy)
       IN  IF data_limit = None
           THEN data' = [data EXCEPT ![at] = pushed] /\ UNCHANGED panicked
           ELSE LET r == Series_drop_front(pushed, unwrap(data_limit))
                IN  /\ data' = [data EXCEPT ![at] = r.ser]
                    /\ panicked' = r.panic

\* Chart::push_xy(index, xy); index counts from 0
Chart_push_xy(index, xy) ==
    /\ lastCall' = [op |-> "push_xy", open |-> "n/a", admitted |-> "n/a", arg |-> index,
                    samples |-> <<xy>>]
    /\ IF index >= Len(data)
       THEN panicked' = TRUE /\ UNCHANGED data
       ELSE LET pushed == Series_push(data[index + 1], xy)
            IN  IF data_limit = None
                THEN data' = [data EXCEPT ![index + 1] = pushed] /\ UNCHANGED panicked
                ELSE LET r == Series_drop_front(pushed, unwrap(data_limit))
                     IN  /\ data' = [data EXCEPT ![index + 1] = r.ser]
                         /\ panicked' = r.panic

\* the loop `for xy in data { ser.push(*xy) }`, from element k on
RECURSIVE PushAll(_, _, _)
PushAll(ser, d, k) ==
    IF k > Len(d) THEN ser ELSE PushAll(Series_push(ser, d[k]), d, k + 1)

\* the sample slices handed to the stand-alone replace: none, one sample, two
\* samples with the later x first
ReplaceSamples == {<< >>, <<<<1, 1>>>>, <<<<2, 5>>, <<1, 1>>>>}

\* the body of replace_series on a stand-alone Series: clear, then push each
\* sample in order
SeriesReplaceAll ==
    /\ ~panicked
    /\ Len(serHist) < MaxSeriesOps
    /\ \E d \in ReplaceSamples :
         /\ series' = PushAll(Series_clear(series), d, 1)
         /\ serHist' = Append(serHist, <<"replace_all", d>>)
         /\ lastCall' = [op |-> "replace_all", open |-> "n/a", admitted |-> "n/a",
                         arg |-> 0, samples |-> d]
    /\ UNCHANGED <<clock, winVars, calls, backend, panicked, glog, chartVars, gridVars>>

\* Chart::replace_series without the clear()
Chart_replace_series_no_clear(index, d) ==
    /\ lastCall' = [op |-> "replace_series", open |-> "n/a", admitted |-> "n/a",
                    arg |-> index, samples |-> d]
    /\ IF index >= Len(data)
       THEN panicked' = TRUE /\ UNCHANGED data
       ELSE /\ data' = [data EXCEPT ![index + 1] = PushAll(@, d, 1)]
            /\ UNCHANGED panicked

\* Chart::replace_series(index, d); index counts from 0
Chart_replace_series(index, d) ==
    /\ lastCall' = [op |-> "replace_series", open |-> "n/a", admitted |-> "n/a",
                    arg |-> index,
                    samples |-> d]
    /\ IF index >= Len(data)
       THEN panicked' = TRUE /\ UNCHANGED data
       ELSE /\ data' = [data EXCEPT ![index + 1] = PushAll(Series_clear(@), d, 1)]
            /\ UNCHANGED panicked

PushTimeSeries ==
    /\ ~panicked
    /\ \A i \in 1..Len(data) : Len(data[i].data) < MaxLen
    /\ \E t \in Ts, n \in (Len(data) - 1)..(Len(data) + 1) :
         \E y \in [1..n -> Ys] : Chart_push_time_series(t, y)
    /\ UNCHANGED <<serVars, clock, winVars, calls, backend, glog, cfgVars>>

PushXY ==
    /\ ~panicked
    /\ \E index \in 0..Len(data), xy \in Samples :
         /\ index < Len(data) => Len(data[index + 1].data) < MaxLen
         /\ Chart_push_xy(index, xy)
    /\ UNCHANGED <<serVars, clock, winVars, calls, backend, glog, cfgVars>>

ReplaceSeries ==
    /\ ~panicked
    /\ \E index \in 0..Len(data), d \in SeqsUpTo(Samples, MaxLen) :
         Chart_replace_series(index, d)
    /\ UNCHANGED <<serVars, clock, winVars, calls, backend, glog, cfgVars>>

---------------------------------------------------------------------------
(* Chart: the axis ranges *)

\* stands for std::f64::MAX: above every coordinate of the model
F64_MAX == 1000000
F64_MIN == - F64_MAX

\* the inner loop of calc_axis_range over one series' samples, from sample k on;
\* acc is <<v_min, v_max>>
RECURSIVE ScanSamples(_, _, _, _, _, _)
ScanSamples(d, k, is_x, find_min, find_max, acc) ==
    IF k > Len(d) THEN acc
    ELSE LET v == IF is_x THEN d[k][1] ELSE d[k][2]
             v_min == IF find_min /\ v < acc[1] THEN v ELSE acc[1]
             v_max == IF find_max /\ v > acc[2] THEN v ELSE acc[2]
         IN  ScanSamples(d, k + 1, is_x, find_min, find_max, <<v_min, v_max>>)

\* the outer loop over the series, from series i on
RECURSIVE ScanSeries(_, _, _, _, _, _)
ScanSeries(sers, i, is_x, find_min, find_max, acc) ==
    IF i > Len(sers) THEN acc
    ELSE ScanSeries(sers, i + 1, is_x, find_min, find_max,
                    ScanSamples(sers[i].data, 1, is_x, find_min, find_max, acc))

unwrap_or(o, default) == IF o = None THEN default ELSE unwrap(o)

\* Chart::calc_axis_range returning the scanned extremes without
\* min.unwrap_or / max.unwrap_or
calc_axis_range_scanned_only(is_x) ==
    LET min == IF is_x THEN limits.x_min ELSE limits.y_min
        max == IF is_x THEN limits.x_max ELSE limits.y_max
    IN  IF min # None /\ max # None
        THEN <<unwrap(min), unwrap(max)>>
        ELSE ScanSeries(data, 1, is_x, min = None, max = None, <<F64_MAX, F64_MIN>>)

\* Chart::calc_axis_range(is_x): <<min, max>>
calc_axis_range(is_x) ==
    LET min == IF is_x THEN limits.x_min ELSE limits.y_min
        max == IF is_x THEN limits.x_max ELSE limits.y_max
    IN  IF min # None /\ max # None
        THEN <<unwrap(min), unwrap(max)>>
        ELSE LET scanned == ScanSeries(data, 1, is_x, min = None, max = None,
                                       <<F64_MAX, F64_MIN>>)
             IN  <<unwrap_or(min, scanned[1]), unwrap_or(max, scanned[2])>>

---------------------------------------------------------------------------
(* BufferWindow *)

NumPixels == Width * Height

WHITE == <<255, 255, 255>>
BLACK == <<0, 0, 0>>
RED   == <<255, 0, 0>>
Colors == {WHITE, RED, <<10, 20, 30>>}

\* The closures handed to BufferWindow::draw: one that draws nothing, one that
\* fills the root area, one that fills it white and then draws one pixel.
DrawFns ==
    {[kind |-> "nothing", fill |-> BLACK, at |-> 0, color |-> BLACK]}
    \cup {[kind |-> "fill", fill |-> c, at |-> 0, color |-> c] : c \in Colors}
    \cup {[kind |-> "fill_pixel", fill |-> WHITE, at |-> i, color |-> d] :
            i \in 1..NumPixels, d \in Colors}

\* a plotted coordinate: a number, or f64::NAN
Num(v) == <<v>>
NaN == << >>

\* the points of a series as Chart::update hands them to draw_series
PlotPoints(ser) ==
    [k \in 1..Len(ser.data) |->
        LET a == ser.data[k][1]
            b == ser.data[k][2]
        IN  IF ser.series_type = "Line"
            THEN <<Num(a * x_scale), IF y_log /\ b <= 0 THEN NaN ELSE Num(b * y_scale)>>
            ELSE <<Num(a * x_scale), Num(b * y_scale)>>]

\* the closure Chart::update hands to BufferWindow::draw, with the axis ranges
\* it has captured
ChartClosure ==
    [kind |-> "chart", xlim |-> calc_axis_range(TRUE), ylim |-> calc_axis_range(FALSE)]

\* the drawing-backend calls with the chart's series drawn before the mesh
BackendCalls_series_first(f) ==
    CASE f.kind = "nothing" -> << >>
      [] f.kind = "fill" -> << <<"fill", f.fill>> >>
      [] f.kind = "fill_pixel" -> << <<"fill", f.fill>>, <<"draw_pixel", f.at, f.color>> >>
      [] f.kind = "chart" ->
            << <<"fill", WHITE>>,
               <<"build_ranged", <<f.xlim[1] * x_scale, f.xlim[2] * x_scale>>,
                                 <<f.ylim[1] * y_scale, f.ylim[2] * y_scale>>, y_log>> >>
            \o [i \in 1..Len(data) |->
                    <<"draw_series", i, data[i].series_type, data[i].color,
                      PlotPoints(data[i])>>]
            \o << <<"configure_mesh">>, <<"configure_series_labels">> >>

\* the drawing-backend calls a closure makes, in order
BackendCalls(f) ==
    CASE f.kind = "nothing" -> << >>
      [] f.kind = "fill" -> << <<"fill", f.fill>> >>
      [] f.kind = "fill_pixel" -> << <<"fill", f.fill>>, <<"draw_pixel", f.at, f.color>> >>
      [] f.kind = "chart" ->
            << <<"fill", WHITE>>,
               <<"build_ranged", <<f.xlim[1] * x_scale, f.xlim[2] * x_scale>>,
                                 <<f.ylim[1] * y_scale, f.ylim[2] * y_scale>>, y_log>>,
               <<"configure_mesh">> >>
            \o [i \in 1..Len(data) |->
                    <<"draw_series", i, data[i].series_type, data[i].color,
                      PlotPoints(data[i])>>]
            \o << <<"configure_series_labels">> >>

\* what the chart's drawing leaves in the byte buffer: a white ground, and
\* pixel i in the colour of series i where that series has samples
ChartPixel(i) ==
    IF i <= Len(data) /\ Len(data[i].data) > 0 THEN data[i].color ELSE WHITE

\* the byte buffer after the closure has drawn through BitMapBackend
ApplyDrawFn(f, buf) ==
    CASE f.kind = "nothing" -> buf
      [] f.kind = "chart" ->
            [k \in 1..Len(buf) |-> ChartPixel(((k - 1) \div 3) + 1)[((k - 1) % 3) + 1]]
      [] f.kind = "fill" ->
            [k \in 1..Len(buf) |-> f.fill[((k - 1) % 3) + 1]]
      [] f.kind = "fill_pixel" ->
            [k \in 1..Len(buf) |->
                IF (k - 1) \div 3 = f.at - 1
                THEN f.color[((k - 1) % 3) + 1]
                ELSE f.fill[((k - 1) % 3) + 1]]

\* x << n on u32, for the operands of the packing: a byte shifted by at most 16
\* bits stays below 2^24, so no bit is shifted out
Shl(x, n) == x * (2 ^ n)

\* a | b on the bits of one byte
RECURSIVE ByteOr(_, _)
ByteOr(a, b) ==
    IF a = 0 THEN b
    ELSE IF b = 0 THEN a
    ELSE (IF a % 2 = 1 \/ b % 2 = 1 THEN 1 ELSE 0) + (2 * ByteOr(a \div 2, b \div 2))

\* a | b, byte by byte
RECURSIVE BitOr(_, _)
BitOr(a, b) ==
    IF a = 0 THEN b
    ELSE IF b = 0 THEN a
    ELSE ByteOr(a % 256, b % 256) + (256 * BitOr(a \div 256, b \div 256))

\* from_u8arr_rgb with the green channel shifted by 4 bits instead of 8
from_u8arr_rgb_short_shift(rgb) == BitOr(BitOr(Shl(rgb[1], 16), Shl(rgb[2], 4)), rgb[3])

\* BufferWindow::from_u8arr_rgb: (r << 16) | (g << 8) | b
from_u8arr_rgb(rgb) == BitOr(BitOr(Shl(rgb[1], 16), Shl(rgb[2], 8)), rgb[3])

\* BufferWindow::from_u8_rgb: the same packing of three separate bytes
from_u8_rgb(r, g, b) == BitOr(BitOr(Shl(r, 16), Shl(g, 8)), b)

\* chunks(3) of the byte buffer: pixel i is bytes 3i-2 .. 3i
Chunk(buf, i) == <<buf[3 * i - 2], buf[3 * i - 1], buf[3 * i]>>

\* transfer_buffer stopping one pixel short of the end
transfer_buffer_one_short(u8, u32) ==
    [i \in 1..Len(u32) |->
        IF i < Len(u8) \div 3 THEN from_u8arr_rgb(Chunk(u8, i)) ELSE u32[i]]

\* transfer_buffer: zip(chunks(3), buffer_u32) overwrites the first
\* min(#chunks, #words) words
transfer_buffer(u8, u32) ==
    [i \in 1..Len(u32) |->
        IF i <= Len(u8) \div 3 THEN from_u8arr_rgb(Chunk(u8, i)) ELSE u32[i]]

NoCall == [op |-> "none", open |-> "n/a", admitted |-> "n/a", arg |-> 0, samples |-> << >>]

\* BufferWindow::draw without the frame-skip gate: `if self.window.is_open()`
BufferWindow_draw_ungated(f, opname) ==
    IF window_open
    THEN LET packed == transfer_buffer(ApplyDrawFn(f, buffer_u8), buffer_u32)
         IN  /\ buffer_u8' = ApplyDrawFn(f, buffer_u8)
             /\ buffer_u32' = packed
             /\ presented' = Some([buffer |-> packed, width |-> Width, height |-> Height])
             /\ fps_skip' = UpdateSkip_update(fps_skip, time_now).gate
             /\ calls' = <<"draw_fn", "transfer_buffer", "update_with_buffer">>
             /\ backend' = BackendCalls(f)
             /\ lastCall' = [op |-> opname, open |-> "open", admitted |-> "admitted",
                             arg |-> 0, samples |-> << >>]
             /\ UNCHANGED window_open
    ELSE /\ calls' = << >>
         /\ backend' = << >>
         /\ lastCall' = [op |-> opname, open |-> "closed", admitted |-> "n/a", arg |-> 0, samples |-> << >>]
         /\ UNCHANGED <<window_open, buffer_u8, buffer_u32, presented, fps_skip>>

\* BufferWindow::draw without the window check: `if self.fps_skip.update()`
BufferWindow_draw_unchecked(f, opname) ==
    LET gate == UpdateSkip_update(fps_skip, time_now)
    IN  IF gate.result
        THEN LET packed == transfer_buffer(ApplyDrawFn(f, buffer_u8), buffer_u32)
             IN  /\ buffer_u8' = ApplyDrawFn(f, buffer_u8)
                 /\ buffer_u32' = packed
                 /\ presented' = Some([buffer |-> packed, width |-> Width,
                                       height |-> Height])
                 /\ fps_skip' = gate.gate
                 /\ calls' = <<"draw_fn", "transfer_buffer", "update_with_buffer">>
                 /\ backend' = BackendCalls(f)
                 /\ lastCall' = [op |-> opname,
                                 open |-> IF window_open THEN "open" ELSE "closed",
                                 admitted |-> "admitted", arg |-> 0, samples |-> << >>]
                 /\ UNCHANGED window_open
        ELSE /\ calls' = << >>
             /\ backend' = << >>
             /\ lastCall' = [op |-> opname,
                             open |-> IF window_open THEN "open" ELSE "closed",
                             admitted |-> "rejected", arg |-> 0, samples |-> << >>]
             /\ UNCHANGED <<window_open, buffer_u8, buffer_u32, presented, fps_skip>>

\* BufferWindow::draw with transfer_buffer() called before the closure
BufferWindow_draw_transfer_first(f, opname) ==
    LET gate == UpdateSkip_update(fps_skip, time_now)
    IN  IF window_open /\ gate.result
        THEN LET packed == transfer_buffer(buffer_u8, buffer_u32)
             IN  /\ buffer_u8' = ApplyDrawFn(f, buffer_u8)
                 /\ buffer_u32' = packed
                 /\ presented' = Some([buffer |-> packed, width |-> Width,
                                       height |-> Height])
                 /\ fps_skip' = gate.gate
                 /\ calls' = <<"transfer_buffer", "draw_fn", "update_with_buffer">>
                 /\ backend' = BackendCalls(f)
                 /\ lastCall' = [op |-> opname, open |-> "open", admitted |-> "admitted",
                                 arg |-> 0, samples |-> << >>]
                 /\ UNCHANGED window_open
        ELSE /\ fps_skip' = IF window_open THEN gate.gate ELSE fps_skip
             /\ calls' = << >>
             /\ backend' = << >>
             /\ lastCall' = [op |-> opname,
                             open |-> IF window_open THEN "open" ELSE "closed",
                             admitted |-> IF window_open THEN "rejected" ELSE "n/a",
                             arg |-> 0, samples |-> << >>]
             /\ UNCHANGED <<window_open, buffer_u8, buffer_u32, presented>>

\* BufferWindow::draw with the operands swapped:
\* `if self.fps_skip.update() && self.window.is_open()`
BufferWindow_draw_gate_first(f, opname) ==
    LET gate == UpdateSkip_update(fps_skip, time_now)
    IN  IF gate.result /\ window_open
        THEN LET drawn == ApplyDrawFn(f, buffer_u8)
                 packed == transfer_buffer(drawn, buffer_u32)
             IN  /\ buffer_u8' = drawn
                 /\ buffer_u32' = packed
                 /\ presented' = Some([buffer |-> packed, width |-> Width, height |-> Height])
                 /\ fps_skip' = gate.gate
                 /\ calls' = <<"draw_fn", "transfer_buffer", "update_with_buffer">>
                 /\ backend' = BackendCalls(f)
                 /\ lastCall' = [op |-> opname, open |-> "open", admitted |-> "admitted",
                                 arg |-> 0, samples |-> << >>]
                 /\ UNCHANGED window_open
        ELSE /\ fps_skip' = gate.gate
             /\ calls' = << >>
             /\ backend' = << >>
             /\ lastCall' = [op |-> opname,
                             open |-> IF window_open THEN "open" ELSE "closed",
                             admitted |-> IF window_open THEN "rejected" ELSE "n/a",
                             arg |-> 0, samples |-> << >>]
             /\ UNCHANGED <<window_open, buffer_u8, buffer_u32, presented>>

\* BufferWindow::draw(f)
BufferWindow_draw(f, opname) ==
    LET gate == UpdateSkip_update(fps_skip, time_now)
    IN  IF window_open /\ gate.result
        THEN LET drawn == ApplyDrawFn(f, buffer_u8)
                 packed == transfer_buffer(drawn, buffer_u32)
             IN  /\ buffer_u8' = drawn
                 /\ buffer_u32' = packed
                 /\ presented' = Some([buffer |-> packed, width |-> Width, height |-> Height])
                 /\ fps_skip' = gate.gate
                 /\ calls' = <<"draw_fn", "transfer_buffer", "update_with_buffer">>
                 /\ backend' = BackendCalls(f)
                 /\ lastCall' = [op |-> opname, open |-> "open", admitted |-> "admitted",
                                 arg |-> 0, samples |-> << >>]
                 /\ UNCHANGED window_open
        ELSE /\ fps_skip' = IF window_open THEN gate.gate ELSE fps_skip
             /\ calls' = << >>
             /\ backend' = << >>
             /\ lastCall' = [op |-> opname,
                             open |-> IF window_open THEN "open" ELSE "closed",
                             admitted |-> IF window_open THEN "rejected" ELSE "n/a",
                             arg |-> 0, samples |-> << >>]
             /\ UNCHANGED <<window_open, buffer_u8, buffer_u32, presented>>

Draw ==
    /\ ~panicked
    /\ \E f \in DrawFns : BufferWindow_draw(f, "draw")
    /\ UNCHANGED <<serVars, clock, panicked, glog, chartVars>>

\* the drawing-backend calls of a closure that panics (an unwrap() of a
\* failed drawing primitive) after the part `done` has been drawn
FailedBackendCalls(done) == Append(BackendCalls(done), <<"error">>)

\* BufferWindow::draw with a panicking closure, the panic caught inside draw:
\* the buffer is transferred and submitted all the same
BufferWindow_draw_panicking_swallowed(done, opname) ==
    LET gate == UpdateSkip_update(fps_skip, time_now)
    IN  IF window_open /\ gate.result
        THEN LET drawn == ApplyDrawFn(done, buffer_u8)
                 packed == transfer_buffer(drawn, buffer_u32)
             IN  /\ buffer_u8' = drawn
                 /\ buffer_u32' = packed
                 /\ presented' = Some([buffer |-> packed, width |-> Width, height |-> Height])
                 /\ fps_skip' = gate.gate
                 /\ calls' = <<"draw_fn", "transfer_buffer", "update_with_buffer">>
                 /\ backend' = FailedBackendCalls(done)
                 /\ panicked' = FALSE
                 /\ lastCall' = [op |-> opname, open |-> "open", admitted |-> "failed",
                                 arg |-> 0, samples |-> << >>]
                 /\ UNCHANGED window_open
        ELSE /\ fps_skip' = IF window_open THEN gate.gate ELSE fps_skip
             /\ calls' = << >>
             /\ backend' = << >>
             /\ lastCall' = [op |-> opname,
                             open |-> IF window_open THEN "open" ELSE "closed",
                             admitted |-> IF window_open THEN "rejected" ELSE "n/a",
                             arg |-> 0, samples |-> << >>]
             /\ UNCHANGED <<window_open, buffer_u8, buffer_u32, presented, panicked>>

\* BufferWindow::draw(f) where the closure f panics after the part `done` has
\* been drawn: the panic unwinds out of draw, past transfer_buffer and
\* update_with_buffer.  On a closed window or a rejecting gate the closure is
\* never called.
BufferWindow_draw_panicking(done, opname) ==
    LET gate == UpdateSkip_update(fps_skip, time_now)
    IN  IF window_open /\ gate.result
        THEN /\ buffer_u8' = ApplyDrawFn(done, buffer_u8)
             /\ fps_skip' = gate.gate
             /\ calls' = <<"draw_fn">>
             /\ backend' = FailedBackendCalls(done)
             /\ panicked' = TRUE
             /\ lastCall' = [op |-> opname, open |-> "open", admitted |-> "failed",
                             arg |-> 0, samples |-> << >>]
             /\ UNCHANGED <<window_open, buffer_u32, presented>>
        ELSE /\ fps_skip' = IF window_open THEN gate.gate ELSE fps_skip
             /\ calls' = << >>
             /\ backend' = << >>
             /\ lastCall' = [op |-> opname,
                             open |-> IF window_open THEN "open" ELSE "closed",
                             admitted |-> IF window_open THEN "rejected" ELSE "n/a",
                             arg |-> 0, samples |-> << >>]
             /\ UNCHANGED <<window_open, buffer_u8, buffer_u32, presented, panicked>>

\* the parts a failing closure has drawn before it panics: nothing, or the fill
FailedParts == {f \in DrawFns : f.kind \in {"nothing", "fill"}}

\* BufferWindow::draw with a closure that panics
DrawPanics ==
    /\ ~panicked
    /\ \E done \in FailedParts : BufferWindow_draw_panicking(done, "draw")
    /\ UNCHANGED <<serVars, clock, glog, chartVars>>

\* Chart::update whose closure panics at build_ranged(..).unwrap(), after the
\* root area was filled white
ChartUpdatePanics ==
    /\ ~panicked
    /\ BufferWindow_draw_panicking(
            [kind |-> "fill", fill |-> WHITE, at |-> 0, color |-> WHITE], "update")
    /\ UNCHANGED <<serVars, clock, glog, chartVars>>

\* Chart::update storing the ranges it computed back into the limits
ChartUpdate_store_limits ==
    /\ ~panicked
    /\ BufferWindow_draw(ChartClosure, "update")
    /\ limits' = [x_min |-> Some(calc_axis_range(TRUE)[1]),
                  x_max |-> Some(calc_axis_range(TRUE)[2]),
                  y_min |-> Some(calc_axis_range(FALSE)[1]),
                  y_max |-> Some(calc_axis_range(FALSE)[2])]
    /\ UNCHANGED <<serVars, clock, panicked, glog, data, data_limit, x_scale, y_scale,
                   y_log, overflow_checks>>

\* Chart::update
ChartUpdate ==
    /\ ~panicked
    /\ BufferWindow_draw(ChartClosure, "update")
    /\ UNCHANGED <<serVars, clock, panicked, glog, chartVars>>

---------------------------------------------------------------------------
(* The environment: the clock advances, the user closes the window *)

Tick(bound) ==
    /\ ~panicked
    /\ clock < bound
    /\ clock' = clock + 1
    /\ calls' = << >>
    /\ backend' = << >>
    /\ lastCall' = NoCall
    /\ UNCHANGED <<serVars, winVars, panicked, glog, chartVars>>

CloseWindow ==
    /\ ~panicked
    /\ window_open
    /\ window_open' = FALSE
    /\ calls' = << >>
    /\ backend' = << >>
    /\ lastCall' = NoCall
    /\ UNCHANGED <<serVars, clock, buffer_u8, buffer_u32, fps_skip, presented, panicked, glog,
                   chartVars>>

---------------------------------------------------------------------------
(* A stand-alone UpdateSkip *)

GateUpdate ==
    /\ Len(glog) < MaxGateCalls
    /\ LET r == UpdateSkip_update(fps_skip, time_now)
       IN  /\ fps_skip' = r.gate
           /\ glog' = Append(glog, <<time_now, r.result>>)
           /\ lastCall' = [op |-> "gate_update", open |-> "n/a",
                           admitted |-> IF r.result THEN "admitted" ELSE "rejected",
                           arg |-> 0, samples |-> << >>]
    /\ UNCHANGED <<serVars, clock, window_open, buffer_u8, buffer_u32, presented, calls, backend,
                   panicked, chartVars>>

---------------------------------------------------------------------------
(* Specifications *)

\* BufferWindow::new
InitWindow ==
    /\ window_open = TRUE
    /\ buffer_u8 = [k \in 1..(3 * NumPixels) |-> 0]
    /\ buffer_u32 = [k \in 1..NumPixels |-> 0]
    /\ presented = None
    /\ calls = << >>
    /\ backend = << >>
    /\ lastCall = NoCall
    /\ panicked = FALSE
    /\ series = Series_new("A", RED, "Line")
    /\ serHist = << >>
    /\ grid = Grid_new(1, 1, 0)
    /\ gridOut = NoGridCall

AxisLimits_empty == [x_min |-> None, x_max |-> None, y_min |-> None, y_max |-> None]

\* ChartBuilder::new() ... .add_series(Series::point("A", &RED))
\* .add_series(Series::line("B", &BLUE)).build(), without the builder's options
InitChart ==
    /\ data = <<Series_new("A", RED, "Point"), Series_new("B", BLUE, "Line")>>
    /\ data_limit = None
    /\ limits = AxisLimits_empty
    /\ x_scale = 1
    /\ y_scale = 1
    /\ y_log = FALSE
    /\ overflow_checks = FALSE

\* the window and the chart's render pass: the chart holds one of a few data sets
Init ==
    /\ clock \in 0..MaxTime
    /\ fps_skip \in {UpdateSkip_from(d) : d \in TargetRates \ {Some(10)}}
    /\ InitWindow
    /\ glog = << >>
    /\ \E d1 \in {<< >>, <<<<1, 5>>>>}, d2 \in {<< >>, <<<<1, -2>>, <<2, 1>>>>} :
         data = <<PushAll(Series_new("A", RED, "Point"), d1, 1),
                  PushAll(Series_new("B", BLUE, "Line"), d2, 1)>>
    /\ data_limit = None
    /\ limits \in {AxisLimits_empty, [AxisLimits_empty EXCEPT !.y_min = Some(0)]}
    /\ x_scale = 1
    /\ y_scale = 1
    /\ y_log = FALSE
    /\ overflow_checks = FALSE

Next ==
    \/ Draw
    \/ ChartUpdate
    \/ Tick(MaxTime)
    \/ CloseWindow

\* the chart's data operations, for every data limit and both builds
CapValues == {None, Some(UsizeOf(0)), Some(UsizeOf(1)), Some(TWO_POW_31),
              Some(TWO_POW_32), Some(USIZE_MAX)}

InitData ==
    /\ clock = 0
    /\ fps_skip = UpdateSkip_from(None)
    /\ InitWindow
    /\ glog = << >>
    /\ data = <<Series_new("A", RED, "Point"), Series_new("B", BLUE, "Line")>>
    /\ data_limit \in CapValues
    /\ limits = AxisLimits_empty
    /\ x_scale = 1
    /\ y_scale = 1
    /\ y_log = FALSE
    /\ overflow_checks \in BOOLEAN

NextData ==
    \/ PushTimeSeries
    \/ PushXY
    \/ ReplaceSeries
    \/ CloseWindow

SpecData == InitData /\ [][NextData]_vars

\* a stand-alone Series, in both builds
InitSeries ==
    /\ clock = 0
    /\ fps_skip = UpdateSkip_from(None)
    /\ InitWindow
    /\ glog = << >>
    /\ data = << >>
    /\ data_limit = None
    /\ limits = AxisLimits_empty
    /\ x_scale = 1
    /\ y_scale = 1
    /\ y_log = FALSE
    /\ overflow_checks \in BOOLEAN

NextSeries ==
    \/ SeriesPush
    \/ SeriesDropFront

SpecSeries == InitSeries /\ [][NextSeries]_vars

\* a stand-alone Series pushed to and cut at the back, in both builds
NextBack ==
    \/ SeriesPush
    \/ SeriesDropBack

SpecBack == InitSeries /\ [][NextBack]_vars

\* a stand-alone Series of either kind with any prior contents, replaced and
\* cleared
InitClear ==
    /\ clock = 0
    /\ fps_skip = UpdateSkip_from(None)
    /\ window_open = TRUE
    /\ buffer_u8 = [k \in 1..(3 * NumPixels) |-> 0]
    /\ buffer_u32 = [k \in 1..NumPixels |-> 0]
    /\ presented = None
    /\ calls = << >>
    /\ backend = << >>
    /\ lastCall = NoCall
    /\ panicked = FALSE
    /\ \E d \in SeqsUpTo(Samples, MaxLen) :
         series \in {PushAll(Series_new("A", RED, "Line"), d, 1),
                     PushAll(Series_new("B", BLUE, "Point"), d, 1)}
    /\ serHist = << >>
    /\ grid = Grid_new(1, 1, 0)
    /\ gridOut = NoGridCall
    /\ InitChart
    /\ glog = << >>

NextClear ==
    \/ SeriesReplaceAll
    \/ SeriesClear

SpecClear == InitClear /\ [][NextClear]_vars

\* the axis ranges of a render, for every choice of configured limits and for
\* series data with y-values among -2, 1, 5
AxisSamples == {1, 2} \X {-2, 1, 5}
LimitValues == {None, Some(0)}

InitAxis ==
    /\ clock = 0
    /\ fps_skip = UpdateSkip_from(None)
    /\ InitWindow
    /\ glog = << >>
    /\ \E d1 \in SeqsUpTo(AxisSamples, MaxLen), d2 \in SeqsUpTo(AxisSamples, 1) :
         data = <<PushAll(Series_new("A", RED, "Point"), d1, 1),
                  PushAll(Series_new("B", BLUE, "Line"), d2, 1)>>
    /\ data_limit = None
    /\ limits \in [x_min : LimitValues, x_max : LimitValues,
                    y_min : LimitValues, y_max : LimitValues]
    /\ x_scale = 1
    /\ y_scale = 1
    /\ y_log = FALSE
    /\ overflow_checks = FALSE

NextAxis ==
    \/ ChartUpdate
    \/ CloseWindow

SpecAxis == InitAxis /\ [][NextAxis]_vars

\* renders of charts built with_x_scale, with_y_scale and with_y_log, with and
\* without a frame-skip gate
ScaleValues == {1, 2}

InitRender ==
    /\ clock \in 0..MaxTime
    /\ fps_skip \in {UpdateSkip_from(None), UpdateSkip_from(Some(2))}
    /\ InitWindow
    /\ glog = << >>
    /\ \E d1 \in {<< >>, <<<<1, 5>>>>, <<<<1, -2>>, <<2, 0>>>>},
          d2 \in {<< >>, <<<<1, -2>>, <<2, 1>>>>} :
         data = <<PushAll(Series_new("A", RED, "Point"), d1, 1),
                  PushAll(Series_new("B", BLUE, "Line"), d2, 1)>>
    /\ data_limit = None
    /\ limits \in {AxisLimits_empty, [AxisLimits_empty EXCEPT !.y_min = Some(0)]}
    /\ x_scale \in ScaleValues
    /\ y_scale \in ScaleValues
    /\ y_log \in BOOLEAN
    /\ overflow_checks = FALSE

NextRender ==
    \/ ChartUpdate
    \/ Tick(MaxTime)
    \/ CloseWindow

SpecRender == InitRender /\ [][NextRender]_vars

\* the packing of bytes written to the public byte buffer: pixel 1 holds any
\* triple of these bytes, the following pixels hold its rotations
PackBytes == {0, 1, 10, 20, 30, 127, 128, 255}

InitPack ==
    /\ clock = 0
    /\ fps_skip = UpdateSkip_from(None)
    /\ window_open = TRUE
    /\ \E r \in PackBytes, g \in PackBytes, b \in PackBytes :
         buffer_u8 = [k \in 1..(3 * NumPixels) |->
                        <<r, g, b>>[((((k - 1) % 3) + ((k - 1) \div 3)) % 3) + 1]]
    /\ buffer_u32 = [k \in 1..NumPixels |-> 0]
    /\ presented = None
    /\ calls = << >>
    /\ backend = << >>
    /\ lastCall = NoCall
    /\ panicked = FALSE
    /\ series = Series_new("A", RED, "Line")
    /\ serHist = << >>
    /\ grid = Grid_new(1, 1, 0)
    /\ gridOut = NoGridCall
    /\ InitChart
    /\ glog = << >>

\* draw(|_| ...) re-encodes whatever the byte buffer holds
NextPack ==
    \/ Draw
    \/ CloseWindow

SpecPack == InitPack /\ [][NextPack]_vars

\* a grid of every size up to MaxGridDim x MaxGridDim, square or not, built
\* by Grid::new(width, height, 0)
InitGrid ==
    /\ clock = 0
    /\ fps_skip = UpdateSkip_from(None)
    /\ window_open = TRUE
    /\ buffer_u8 = [k \in 1..(3 * NumPixels) |-> 0]
    /\ buffer_u32 = [k \in 1..NumPixels |-> 0]
    /\ presented = None
    /\ calls = << >>
    /\ backend = << >>
    /\ lastCall = NoCall
    /\ panicked = FALSE
    /\ series = Series_new("A", RED, "Line")
    /\ serHist = << >>
    /\ \E width \in 1..MaxGridDim, height \in 1..MaxGridDim :
         grid = Grid_new(width, height, 0)
    /\ gridOut = NoGridCall
    /\ InitChart
    /\ glog = << >>

NextGrid ==
    \/ GridSet
    \/ GridGet
    \/ GridContains
    \/ GridIndex
    \/ GridCoord

SpecGrid == InitGrid /\ [][NextGrid]_vars

Spec == Init /\ [][Next]_vars

\* the window and the chart's render pass with closures that may panic
NextFail ==
    \/ Draw
    \/ ChartUpdate
    \/ DrawPanics
    \/ ChartUpdatePanics
    \/ Tick(MaxTime)
    \/ CloseWindow

SpecFail == Init /\ [][NextFail]_vars

InitGate ==
    /\ clock \in 0..MaxGateTime
    /\ fps_skip \in {UpdateSkip_from(d) : d \in TargetRates}
    /\ InitWindow
    /\ InitChart
    /\ glog = << >>

NextGate ==
    \/ GateUpdate
    \/ Tick(MaxGateTime)

SpecGate == InitGate /\ [][NextGate]_vars

---------------------------------------------------------------------------
(* Claims about BufferWindow::draw and Chart::update, under Spec *)

\* the step is a call of BufferWindow::draw or of Chart::update
DrawStep == lastCall'.op \in {"draw", "update"}
\* the gate would admit a call made now
GateAdmitsNow ==
    fps_skip.target_rate = None
        \/ clock - fps_skip.prev_time >= unwrap(fps_skip.target_rate)
\* (r << 16) | (g << 8) | b
Packed(r, g, b) == (r * 65536) + (g * 256) + b

\* C3: BufferWindow::draw and Chart::update are no-ops whenever the window is
\* closed or the gate rejects the call: the closure is not invoked, both
\* buffers stay as they are, no drawing-backend call is made, nothing is
\* submitted to the window backend and nothing panics.
C3_RejectedDrawIsNoOp ==
    [][(DrawStep /\ (~window_open \/ ~GateAdmitsNow)) =>
        /\ calls' = << >>
        /\ backend' = << >>
        /\ UNCHANGED <<buffer_u8, buffer_u32, presented>>
        /\ panicked' = FALSE]_vars

\* Chart::update has just been rejected by the gate, after an earlier frame
\* (drawn by another closure) was presented
C3_Witness ==
    /\ lastCall.op = "update"
    /\ lastCall.admitted = "rejected"
    /\ presented # None
    /\ buffer_u8 # ApplyDrawFn(ChartClosure, buffer_u8)

\* C4: when the window is open and the gate admits, draw performs, in this
\* order and once each: the closure on the byte buffer, the re-encoding of
\* every pixel of the byte buffer into the packed buffer, the submission of
\* the packed buffer with (width, height) to the window backend.
C4_AdmittedDrawSequence ==
    [][(DrawStep /\ window_open /\ GateAdmitsNow) =>
        /\ calls' = <<"draw_fn", "transfer_buffer", "update_with_buffer">>
        /\ \E f \in DrawFns \cup {ChartClosure} :
              /\ buffer_u8' = ApplyDrawFn(f, buffer_u8)
              /\ backend' = BackendCalls(f)
        /\ \A i \in 1..NumPixels :
              buffer_u32'[i] = Packed(buffer_u8'[3 * i - 2], buffer_u8'[3 * i - 1],
                                      buffer_u8'[3 * i])
        /\ presented' = Some([buffer |-> buffer_u32', width |-> Width,
                              height |-> Height])]_vars

\* an admitted draw has filled the buffer white and drawn pixel 2 in (10, 20, 30)
C4_Witness ==
    /\ lastCall.op = "draw"
    /\ lastCall.admitted = "admitted"
    /\ Chunk(buffer_u8, 1) = WHITE
    /\ Chunk(buffer_u8, 2) = <<10, 20, 30>>
    /\ presented # None
    /\ unwrap(presented).buffer[2] = 660510

\* C5: closed is terminal.  Once the window is closed it stays closed, and no
\* later call of draw or update, nor any other step, invokes a closure, changes
\* a buffer or presents anything.
C5_ClosedIsTerminal ==
    [][~window_open =>
        /\ ~window_open'
        /\ calls' = << >>
        /\ backend' = << >>
        /\ UNCHANGED <<buffer_u8, buffer_u32, presented>>]_vars

\* draw has been called on a closed window at a time the gate would admit,
\* with an earlier frame on the screen
C5_Witness ==
    /\ ~window_open
    /\ lastCall.op = "draw"
    /\ lastCall.open = "closed"
    /\ GateAdmitsNow
    /\ presented # None

\* C12 (Spec): in every state between calls, from construction on, the packed
\* buffer holds one word per pixel and word i is the packing of pixel i of the
\* byte buffer, which only a successful draw changes.
C12_PackedMirrorsBytes ==
    /\ Len(buffer_u8) = 3 * NumPixels
    /\ Len(buffer_u32) = NumPixels
    /\ \A i \in 1..NumPixels : buffer_u32[i] = from_u8arr_rgb(Chunk(buffer_u8, i))

\* a draw was rejected or found the window closed after an earlier draw had left
\* two pixels of different colours
C12_Witness ==
    /\ lastCall.op \in {"draw", "update"}
    /\ lastCall.admitted # "admitted"
    /\ Chunk(buffer_u8, 1) # Chunk(buffer_u8, NumPixels)
    /\ buffer_u32[1] # buffer_u32[NumPixels]
    /\ buffer_u32[1] # 0

\* C11 (SpecPack): after an admitted draw every packed word is
\* (r<<16)|(g<<8)|b = r*65536 + g*256 + b of its pixel's bytes, for both packing
\* functions; it fits in 24 bits and r, g, b are recovered from it exactly; the
\* triple (10, 20, 30) packs to 10<<16 | 20<<8 | 30 = 660510.
C11_PixelPacking ==
    /\ from_u8arr_rgb(<<10, 20, 30>>) = 660510
    /\ (lastCall.op = "draw" /\ lastCall.admitted = "admitted") =>
          \A i \in 1..NumPixels :
             LET r == buffer_u8[3 * i - 2]
                 g == buffer_u8[3 * i - 1]
                 b == buffer_u8[3 * i]
                 w == buffer_u32[i]
             IN  /\ w = (r * 65536) + (g * 256) + b
                 /\ w = from_u8_rgb(r, g, b)
                 /\ w >= 0 /\ w < 16777216
                 /\ w \div 65536 = r
                 /\ (w \div 256) % 256 = g
                 /\ w % 256 = b

\* a draw that drew nothing has packed the bytes (10, 20, 30) written to pixel 1
C11_Witness ==
    /\ lastCall.op = "draw"
    /\ lastCall.admitted = "admitted"
    /\ backend = << >>
    /\ Chunk(buffer_u8, 1) = <<10, 20, 30>>
    /\ buffer_u32[1] = 660510

\* C21 (SpecFail): if the closure fails during draw / update, the failure
\* reaches the caller of that call (the panic unwinds out of it), nothing is
\* submitted to the window backend for that call, and the closure is not
\* called again.
C21_DrawFailurePropagates ==
    [][lastCall'.admitted = "failed" =>
        /\ panicked'
        /\ calls' = <<"draw_fn">>
        /\ presented' = presented
        /\ buffer_u32' = buffer_u32]_vars

\* Chart::update has failed after filling a buffer that an earlier, presented
\* frame had left in another colour
C21_Witness ==
    /\ lastCall.op = "update"
    /\ lastCall.admitted = "failed"
    /\ panicked
    /\ presented # None
    /\ Chunk(buffer_u8, 1) = WHITE
    /\ unwrap(presented).buffer[1] = 660510

---------------------------------------------------------------------------
(* Claims about Series and the Chart's data operations *)

\* the last n elements of s
LastN(s, n) == SubSeq(s, Len(s) - n + 1, Len(s))
\* min(n, k) and n <= k for a natural n below 65536 and a usize k
MinNatUsize(n, k) == IF IsSmall(k) /\ k[4] < n THEN k[4] ELSE n
LeqUsize(n, k) == ~IsSmall(k) \/ n <= k[4]

\* the calls on the stand-alone Series were pushes followed by one drop_front
PushesThenCap ==
    /\ Len(serHist) >= 1
    /\ serHist[Len(serHist)][1] = "drop_front"
    /\ \A i \in 1..(Len(serHist) - 1) : serHist[i][1] = "push"

\* C6 (SpecSeries): after n calls of push followed by drop_front(k) the series
\* has length min(n, k) and holds the last min(n, k) pushed samples in their
\* original order.
C6_PushesThenCapKeepsLast ==
    PushesThenCap =>
        LET n == Len(serHist) - 1
            k == serHist[Len(serHist)][2]
            pushes == [i \in 1..n |-> serHist[i][2]]
        IN  /\ ~panicked
            /\ series.data = LastN(pushes, MinNatUsize(n, k))

\* C7 (SpecData): when a data limit is configured, after any sequence of
\* push_time_series, push_xy and replace_series every series holds at most
\* data_limit samples.
C7_DataCapInvariant ==
    data_limit # None =>
        \A i \in 1..Len(data) : LeqUsize(Len(data[i].data), unwrap(data_limit))

\* s cut to its last data_limit samples, or s itself when no limit is set
Capped(s) ==
    IF data_limit = None THEN s
    ELSE LastN(s, MinNatUsize(Len(s), unwrap(data_limit)))

\* C8 (SpecData): push_time_series(t, y) with as many y values as series (on
\* an open window) appends (t, y[i]) to series i for every i and then enforces
\* the data limit, so each series afterwards equals the last data_limit
\* samples of its previous contents followed by (t, y[i]), or the whole
\* extended sequence when no limit is set.
C8_PushRowAppendsAndCaps ==
    [][(lastCall'.op = "push_time_series" /\ lastCall'.arg = Len(data) /\ window_open) =>
        /\ ~panicked'
        /\ \E t \in Ts, y \in [1..Len(data) -> Ys] :
              \A i \in 1..Len(data) :
                 data'[i].data = Capped(Append(data[i].data, <<t, y[i]>>))]_vars

\* the step is a call of push_time_series with a wrong number of y values
MismatchedPushStep == lastCall'.op = "push_time_series" /\ lastCall'.arg # Len(data)

C17_ClearEmpties ==
    [][lastCall'.op = "clear" =>
        /\ series'.data = << >>
        /\ Len(series'.data) = 0
        /\ series'.name = series.name
        /\ series'.color = series.color
        /\ series'.series_type = series.series_type
        /\ ~panicked']_vars

\* a Point series "B" was given two samples by a replace and then cleared
C17_Witness ==
    /\ Len(serHist) >= 2
    /\ serHist[Len(serHist)][1] = "clear"
    /\ serHist[Len(serHist) - 1] = <<"replace_all", <<<<2, 5>>, <<1, 1>>>>>>
    /\ series = Series_new("B", BLUE, "Point")

\* the target length of the drop_front or drop_back call just made
LastTargLen == serHist'[Len(serHist')][2]

\* C18 (SpecSeries): drop_front(targ_len) with targ_len >= the current length
\* is a no-op: the sample sequence is unchanged, also when the series is empty.
C18_DropFrontNoOpAtOrAboveLen ==
    [][(lastCall'.op = "drop_front" /\ LeqUsize(Len(series.data), LastTargLen)) =>
        /\ series' = series
        /\ ~panicked']_vars

\* C19 (SpecBack): drop_back(targ_len) ends without error for every targ_len
\* and every length n, leaving the first min(n, targ_len) samples in their
\* original order (a no-op when targ_len >= n).
C19_DropBackKeepsFirst ==
    [][lastCall'.op = "drop_back" =>
        /\ ~panicked'
        /\ series'.data = SubSeq(series.data, 1,
                                 MinNatUsize(Len(series.data), LastTargLen))
        /\ series'.name = series.name]_vars

\* the step is a call of one of the Chart's operations on a closed window
ClosedChartOpStep ==
    /\ ~window_open
    /\ lastCall'.op \in {"push_time_series", "push_xy", "replace_series", "update"}

\* C13 (SpecData): once the window is closed, push_time_series, push_xy,
\* replace_series and update leave every series, the limits and both buffers
\* unchanged and signal no error.
C13_ClosedChartOpsAreNoOps ==
    [][ClosedChartOpStep =>
        /\ data' = data
        /\ limits' = limits
        /\ buffer_u8' = buffer_u8
        /\ buffer_u32' = buffer_u32
        /\ ~panicked']_vars

\* the step is a call push_xy(index, xy) with a valid index
ValidPushXYStep == lastCall'.op = "push_xy" /\ lastCall'.arg < Len(data)

\* C14 (SpecData): push_xy(i, xy) with a valid index appends xy to the end of
\* series i and then enforces the data limit on that series; every other
\* series is left unchanged.
C14_PushPointAppendsAndCaps ==
    [][ValidPushXYStep =>
        LET i == lastCall'.arg + 1
            xy == lastCall'.samples[1]
        IN  /\ ~panicked'
            /\ data' = [data EXCEPT ![i].data = Capped(Append(@, xy))]]_vars

\* the step is a call of push_xy or replace_series with an index that names no
\* series
BadIndexStep ==
    /\ lastCall'.op \in {"push_xy", "replace_series"}
    /\ lastCall'.arg >= Len(data)

\* C15 (SpecData): push_xy and replace_series called with an index >= the
\* number of series fail with an error surfaced to the caller (the index
\* panics) and leave every series unchanged.
C15_BadIndexFails ==
    [][BadIndexStep => (panicked' /\ data' = data)]_vars

\* replace_series was called with an index one past the last series and two
\* samples, on a chart that holds data; the call has panicked
C15_Witness ==
    /\ panicked
    /\ lastCall.op = "replace_series"
    /\ lastCall.arg = Len(data)
    /\ Len(lastCall.samples) = 2
    /\ \E i \in 1..Len(data) : Len(data[i].data) > 0

\* the step is a call replace_series(index, samples) with a valid index
ValidReplaceStep == lastCall'.op = "replace_series" /\ lastCall'.arg < Len(data)

C20_RenderLeavesDataAndLimits ==
    [][lastCall'.op = "update" =>
        /\ data' = data
        /\ limits' = limits
        /\ \A f \in {"x_min", "x_max", "y_min", "y_max"} :
              limits[f] = None => limits'[f] = None
        /\ x_scale' = x_scale
        /\ y_scale' = y_scale
        /\ y_log' = y_log
        /\ data_limit' = data_limit]_vars

\* an admitted update of a chart with x_scale 2, y_scale 2 and y_log has drawn
\* on the scaled ranges while the stored samples and the unset limits are as
\* built
C20_Witness ==
    /\ lastCall.op = "update"
    /\ lastCall.admitted = "admitted"
    /\ x_scale = 2 /\ y_scale = 2 /\ y_log
    /\ backend[2][2] = <<2, 4>>
    /\ backend[2][3] = <<-4, 10>>
    /\ data[1].data = <<<<1, 5>>>>
    /\ data[2].data = <<<<1, -2>>, <<2, 1>>>>
    /\ limits = AxisLimits_empty

\* the points of series i as the last admitted update handed them to the
\* drawing backend
DrawnPoints(i) == backend[3 + i][5]

\* C22 (SpecRender): with y_log set, every sample whose y-value is <= 0 is
\* handed to the drawing backend with a not-a-number y, for Line and for Point
\* series alike, and no error is raised.
C22_YLogMapsNonPositiveToNaN ==
    (lastCall.op = "update" /\ lastCall.admitted = "admitted" /\ y_log) =>
        /\ ~panicked
        /\ \A i \in 1..Len(data) : \A k \in 1..Len(data[i].data) :
              data[i].data[k][2] <= 0 => DrawnPoints(i)[k][2] = NaN

\* an admitted Chart::update has just been made
AdmittedUpdate == lastCall.op = "update" /\ lastCall.admitted = "admitted"

\* the calls from position p + 1 on are one draw call per series, in
\* series-index order, each with its series' kind and colour
SeriesDrawnFrom(p) ==
    \A i \in 1..Len(data) :
       /\ p + i <= Len(backend)
       /\ backend[p + i][1] = "draw_series"
       /\ backend[p + i][2] = i
       /\ backend[p + i][3] = data[i].series_type
       /\ backend[p + i][4] = data[i].color

\* the number of calls of the given kind among the drawing-backend calls
CallCount(kind) == Cardinality({j \in 1..Len(backend) : backend[j][1] = kind})

\* C23 as stated: an admitted update issues one draw call per series, in
\* series-index order with the series' colour and kind, followed by the
\* axis/mesh draw and then the legend draw.
C23_SeriesThenMeshThenLegend ==
    AdmittedUpdate =>
        LET n == Len(data)
            last == Len(backend)
        IN  /\ last >= n + 2
            /\ CallCount("draw_series") = n
            /\ SeriesDrawnFrom(last - 2 - n)
            /\ backend[last - 1][1] = "configure_mesh"
            /\ backend[last][1] = "configure_series_labels"

\* C23 (SpecRender): an admitted update fills the root area, builds the
\* axes, draws the axis/mesh, then issues exactly one draw call per series,
\* in series-index order with the series' colour and kind, and draws the
\* legend last.
C23_MeshThenSeriesThenLegend ==
    AdmittedUpdate =>
        LET n == Len(data)
        IN  /\ Len(backend) = n + 4
            /\ backend[1] = <<"fill", WHITE>>
            /\ backend[2][1] = "build_ranged"
            /\ backend[3][1] = "configure_mesh"
            /\ CallCount("draw_series") = n
            /\ SeriesDrawnFrom(3)
            /\ backend[n + 4][1] = "configure_series_labels"
            /\ CallCount("configure_mesh") = 1
            /\ CallCount("configure_series_labels") = 1

\* an admitted update of a chart whose Point and Line series both hold data
\* has drawn the mesh, the Point series in red, the Line series in blue and
\* the legend
C23_Witness ==
    /\ AdmittedUpdate
    /\ Len(data[1].data) > 0 /\ Len(data[2].data) > 0
    /\ backend[3][1] = "configure_mesh"
    /\ backend[4][3] = "Point" /\ backend[4][4] = RED
    /\ backend[5][3] = "Line" /\ backend[5][4] = BLUE
    /\ backend[6][1] = "configure_series_labels"

---------------------------------------------------------------------------
(* Claims about the axis ranges, under SpecAxis *)

\* the x (or y) coordinates of all samples of all series
Coords(is_x) ==
    UNION {{IF is_x THEN data[i].data[k][1] ELSE data[i].data[k][2] :
                k \in 1..Len(data[i].data)} : i \in 1..Len(data)}

SetMin(S) == CHOOSE m \in S : \A v \in S : m <= v
SetMax(S) == CHOOSE m \in S : \A v \in S : m >= v

ConfiguredMin(is_x) == IF is_x THEN limits.x_min ELSE limits.y_min
ConfiguredMax(is_x) == IF is_x THEN limits.x_max ELSE limits.y_max

\* the range the claim gives for an axis with at least one sample
ClaimedRange(is_x) ==
    <<IF ConfiguredMin(is_x) # None THEN unwrap(ConfiguredMin(is_x))
                                    ELSE SetMin(Coords(is_x)),
      IF ConfiguredMax(is_x) # None THEN unwrap(ConfiguredMax(is_x))
                                    ELSE SetMax(Coords(is_x))>>

\* C10: the effective range of each axis, computed independently: configured
\* endpoints are used verbatim, and with samples stored each unconfigured
\* endpoint is the minimum (maximum) of that coordinate over all samples of all
\* series; an admitted render builds its axes from these ranges.  The y-values
\* 1, 5, -2 give (-2, 5) with no limits and (0, 5) with y_min = 0 alone.
C10_EffectiveAxisRange ==
    /\ \A is_x \in BOOLEAN :
          LET r == calc_axis_range(is_x)
          IN  /\ ConfiguredMin(is_x) # None => r[1] = unwrap(ConfiguredMin(is_x))
              /\ ConfiguredMax(is_x) # None => r[2] = unwrap(ConfiguredMax(is_x))
              /\ Coords(is_x) # {} => r = ClaimedRange(is_x)
    /\ (lastCall.op = "update" /\ lastCall.admitted = "admitted" /\ Coords(TRUE) # {}) =>
          /\ backend[2][1] = "build_ranged"
          /\ backend[2][2] = <<ClaimedRange(TRUE)[1] * x_scale, ClaimedRange(TRUE)[2] * x_scale>>
          /\ backend[2][3] = <<ClaimedRange(FALSE)[1] * y_scale, ClaimedRange(FALSE)[2] * y_scale>>
    /\ (Coords(FALSE) = {1, 5, -2} /\ limits.y_max = None) =>
          /\ limits.y_min = None => calc_axis_range(FALSE) = <<-2, 5>>
          /\ limits.y_min = Some(0) => calc_axis_range(FALSE) = <<0, 5>>

\* a chart with the y-values 1, 5, -2, y_min = 0 and no y_max has been rendered
\* on the y range (0, 5)
C10_Witness ==
    /\ lastCall.op = "update"
    /\ lastCall.admitted = "admitted"
    /\ Coords(FALSE) = {1, 5, -2}
    /\ limits.y_min = Some(0)
    /\ limits.y_max = None
    /\ limits.x_min = None
    /\ backend[2][3] = <<0, 5>>

GateStep == Len(glog') = Len(glog) + 1
Returned == glog'[Len(glog')][2]

\* C1: UpdateSkip::update with no target interval returns true on every call;
\* with a target interval T it returns true and sets prev_time to now exactly
\* when now - prev_time >= T, and otherwise returns false and leaves prev_time
\* as it was.
C1_AdmitContract ==
    [][GateStep =>
        IF fps_skip.target_rate = None
        THEN Returned = TRUE
        ELSE IF clock - fps_skip.prev_time >= unwrap(fps_skip.target_rate)
             THEN Returned = TRUE /\ fps_skip'.prev_time = clock
             ELSE Returned = FALSE /\ fps_skip'.prev_time = fps_skip.prev_time]_vars

\* a throttled gate has admitted a call exactly at the interval's end
\* (delta = T) and has rejected another one
C1_Witness ==
    /\ fps_skip.target_rate = Some(2)
    /\ \E i, j \in 1..Len(glog) :
         /\ i < j
         /\ glog[i][2] = TRUE /\ glog[j][2] = TRUE
         /\ glog[j][1] - glog[i][1] = 2
         /\ \E k \in 1..Len(glog) : i < k /\ k < j /\ glog[k][2] = FALSE

Increasing(log) == \A i \in 1..(Len(log) - 1) : log[i][1] < log[i + 1][1]

\* the time of the last call before call i that was admitted
LastAccepted(log, i) ==
    LET acc == {j \in 1..(i - 1) : log[j][2]}
    IN  log[CHOOSE j \in acc : \A k \in acc : k <= j][1]

\* C2: on a freshly built gate with target interval T called at increasing
\* times t0 < t1 < ..., the first call returns true and every later call at ti
\* returns true iff ti minus the last accepted time is >= T; with T = 1.0 s
\* and calls at 0.0, 0.4, 0.9, 1.1, 1.6 s the results are true, false, false,
\* true, false.
C2_FirstAdmitThenCadence ==
    (fps_skip.target_rate # None /\ Len(glog) >= 1 /\ Increasing(glog)) =>
        /\ glog[1][2] = TRUE
        /\ \A i \in 2..Len(glog) :
              glog[i][2] = (glog[i][1] - LastAccepted(glog, i) >= unwrap(fps_skip.target_rate))
        /\ (fps_skip.target_rate = Some(10)
                /\ [i \in 1..Len(glog) |-> glog[i][1]] = <<0, 4, 9, 11, 16>>)
            => [i \in 1..Len(glog) |-> glog[i][2]] = <<TRUE, FALSE, FALSE, TRUE, FALSE>>

\* from call s of the log on, the calls are spaced half the interval T apart
SteadyFrom(s, T) ==
    \A j \in (s + 1)..Len(glog) : 2 * (glog[j][1] - glog[j - 1][1]) = T

\* C24 (SpecGate): on a gate with a target interval T > 0, a steady stream of
\* calls spaced T/2 apart that starts with an admitted call gets the results
\* true, false, true, false, ... in strict alternation: one call is admitted
\* per interval of length T.
C24_HalfIntervalAlternates ==
    (fps_skip.target_rate # None /\ unwrap(fps_skip.target_rate) > 0) =>
        \A s \in 1..Len(glog) :
           (glog[s][2] /\ SteadyFrom(s, unwrap(fps_skip.target_rate))) =>
               \A j \in s..Len(glog) : glog[j][2] = ((j - s) % 2 = 0)

\* five calls spaced half an interval apart, the first one admitted, got
\* true, false, true, false, true
C24_Witness ==
    /\ fps_skip.target_rate = Some(2)
    /\ Len(glog) = 5
    /\ glog[1][2]
    /\ SteadyFrom(1, 2)
    /\ [i \in 1..Len(glog) |-> glog[i][2]] = <<TRUE, FALSE, TRUE, FALSE, TRUE>>


\* the coordinates inside the grid
GridCells(g) == (0..(g.width - 1)) \X (0..(g.height - 1))

\* C25: Grid::contains(x, y) returns true exactly when 0 <= x < width and
\* 0 <= y < height, on a grid of every size, square or not
C25_ContainsIffInBounds ==
    gridOut.op = "contains" =>
        (gridOut.ret <=> (/\ 0 <= gridOut.x /\ gridOut.x < grid.width
                          /\ 0 <= gridOut.y /\ gridOut.y < grid.height))

\* the flat index of every in-range coordinate lies inside the cell vector,
\* distinct coordinates have distinct indices, and coord inverts index
GridIndexing ==
    \A c \in GridCells(grid) :
       /\ Grid_index(grid, c[1], c[2]) < grid.width * grid.height
       /\ Grid_coord(grid, Grid_index(grid, c[1], c[2])) = c
       /\ \A d \in GridCells(grid) :
             c # d => Grid_index(grid, c[1], c[2]) # Grid_index(grid, d[1], d[2])

\* a set(x, y, v) with x < width and y < height
GridSetInRange ==
    /\ gridOut'.op = "set"
    /\ <<gridOut'.x, gridOut'.y>> \in GridCells(grid)

\* C26: for x < width and y < height, set(x, y, v) makes get(x, y) return v
\* and leaves every other in-range coordinate unchanged; the flat index
\* x * height + y is below width * height and distinct for distinct
\* coordinates, and coord(index(x, y)) = (x, y)
C26_SetGetIndexCoord ==
    /\ []GridIndexing
    /\ [][GridSetInRange =>
            /\ ~panicked'
            /\ \A c \in GridCells(grid) :
                  Grid_get(grid', c[1], c[2]).ret =
                     IF c = <<gridOut'.x, gridOut'.y>>
                     THEN Some(gridOut'.arg)
                     ELSE Grid_get(grid, c[1], c[2]).ret]_vars

C26_Witness ==
    /\ grid.width = 1
    /\ grid.height = 2
    /\ gridOut = [op |-> "set", x |-> 0, y |-> 1, arg |-> 1, ret |-> None]
    /\ ~panicked
    /\ Grid_get(grid, 0, 1).ret = Some(1)
    /\ Grid_get(grid, 0, 0).ret = Some(0)
    /\ Grid_coord(grid, Grid_index(grid, 0, 1)) = <<0, 1>>


\* max(0, len - targ_len) for a length len and a usize targ_len
ExcessOver(len, targ_len) ==
    IF LeqUsize(len, targ_len) THEN 0 ELSE len - targ_len[4]

\* C27 (SpecSeries): drop_front(targ_len) removes exactly
\* max(0, len - targ_len) samples, from the front, for every length and every
\* targ_len of the usize range, and ends without a panic
C27_DropFrontRemovesExcess ==
    [][lastCall'.op = "drop_front" =>
        /\ ~panicked'
        /\ series'.data = SubSeq(series.data,
                                 ExcessOver(Len(series.data), LastTargLen) + 1,
                                 Len(series.data))]_vars


\* C28 (SpecAxis): whenever at least one sample is stored, the effective
\* range of each axis has min <= max, whichever of the four limits are
\* configured, exactly one endpoint of an axis included
C28_EffectiveRangeOrdered ==
    Coords(TRUE) # {} =>
        \A is_x \in BOOLEAN :
           calc_axis_range(is_x)[1] <= calc_axis_range(is_x)[2]


\* the number of invocations of `name` among the calls cs
Invocations(cs, name) == Cardinality({i \in 1..Len(cs) : cs[i] = name})

\* C29 (SpecFail): the gate is consulted only while the window is open.  A
\* draw or update on a closed window leaves the gate's prev_time as it was,
\* and every draw or update invokes the closure once when the window is open
\* and the gate admits and not at all otherwise, so that over any sequence of
\* calls the invocations number the calls made open and admitted.
C29_GateOnlyWhileOpen ==
    [][DrawStep =>
        /\ ~window_open => fps_skip' = fps_skip
        /\ Invocations(calls', "draw_fn") =
              IF window_open /\ GateAdmitsNow THEN 1 ELSE 0]_vars

\* draw has been called on a closed window, two ticks after the throttled
\* gate last admitted a call: the gate would have admitted, and still holds
\* the earlier time
C29_Witness ==
    /\ ~window_open
    /\ lastCall.op = "draw"
    /\ lastCall.open = "closed"
    /\ fps_skip = [target_rate |-> Some(2), prev_time |-> 2]
    /\ clock = 4
    /\ presented # None

====
